---- MODULE Spec2Model ----
(***************************************************************************)
(* Lifecycle of the log pipeline of opentelemetry-sdk                      *)
(* (src/opentelemetry-sdk/src/logs/logger_provider.rs).                    *)
(*                                                                         *)
(* A LoggerProviderInner (processor list + is_shutdown flag) is shared     *)
(* through Arc by every SdkLoggerProvider handle and by every SdkLogger,   *)
(* which holds a handle of its own.  Threads call clone, logger(), emit,   *)
(* force_flush(), shutdown() and drop handles and loggers in any order.    *)
(* The shutdown sweep is modelled one processor call per step, so that     *)
(* concurrent callers interleave with it.  A handle has no field but the   *)
(* Arc, so the handles of one inner state are interchangeable and are      *)
(* kept as a count; loggers are counted per kind in the same way.          *)
(***************************************************************************)
EXTENDS Integers, Sequences, FiniteSets, TLC

\* ---- bounds of the model ------------------------------------------------
MaxProcs == 2          \* processors registered on a provider: 0..MaxProcs
NumThreads == 2        \* concurrent caller threads
MaxHandles == 2        \* SdkLoggerProvider handles of one state alive at a time
MaxLoggers == 2        \* SdkLogger values alive at a time
MaxResources == 2      \* with_resource calls made on a builder

\* ---- program constants --------------------------------------------------
NOOP == 0                  \* the inner state behind NOOP_LOGGER_PROVIDER
DefaultTimeout == 5        \* SdkLoggerProvider::shutdown
InnerDefaultTimeout == 5   \* LoggerProviderInner::shutdown

Providers == {1, 2}
Inners == Providers \cup {NOOP}
Timeouts == {2, DefaultTimeout}

\* A logger is told apart by the inner state its handle refers to (st), the
\* state of the handle that issued it (from) and the moment of the
\* logger() call: "before" the flag of from was set, "during" the winning
\* shutdown call, or "after" that call had returned.
Whens == {"before", "during", "after"}
LoggerKinds == [st : Inners, from : Providers, when : Whens]

VARIABLES
    processors,    \* [Inners -> Seq(Nat)]  LoggerProviderInner.processors
    is_shutdown,   \* [Inners -> BOOLEAN]   LoggerProviderInner.is_shutdown
    alive,         \* [Inners -> {"none","live","dropping","dropped"}]
    handles,       \* [Inners -> Nat]  live SdkLoggerProvider values per state
    loggers,       \* [LoggerKinds -> Nat]  live SdkLogger values per kind
    inflight,      \* the sweeps threads are inside of, one frame per thread
    ret,           \* what the last shutdown call to return returned
    sdCalls,       \* the shutdown_with_timeout calls processors received, in order
    last,          \* the latest force_flush() or emit() call, as observed
    returned,      \* [Inners -> result]  result of the winning shutdown call
    won,           \* [Inners -> Nat] shutdown calls whose compare_exchange succeeded
    builder        \* the LoggerProviderBuilder and the set_resource calls of build()

vars == <<processors, is_shutdown, alive, handles, loggers, inflight, ret, sdCalls,
          last, returned, won, builder>>

\* ---- values -------------------------------------------------------------
\* OTelSdkResult: Ok(()), Err(AlreadyShutdown), Err(InternalFailure(detail))
NoResult == [kind |-> "None", errs |-> <<>>]
Ok == [kind |-> "Ok", errs |-> <<>>]
AlreadyShutdown == [kind |-> "AlreadyShutdown", errs |-> <<>>]
InternalFailure(detail) == [kind |-> "InternalFailure", errs |-> detail]

\* A processor's own result: 0 is Ok(()), p > 0 is the Err of processor p.
ProcOk == 0
ProcErr(p) == p

\* The frame of a thread inside LoggerProviderInner::shutdown_with_timeout:
\* the state swept, the next processor, the timeout, the results so far, who
\* called ("explicit" borrows a handle, "drop" does not), and which winning
\* call of the state it is (0 in Drop).
Frame(st, idx, timeout, results, origin, call) ==
    [st |-> st, idx |-> idx, timeout |-> timeout, results |-> results,
     origin |-> origin, call |-> call]

\* One processor method call, as the processor sees it; after tells whether
\* the winning shutdown of the state had returned when the call was made.
Call(st, p, op, timeout, res, origin, after) ==
    [st |-> st, p |-> p, op |-> op, timeout |-> timeout, res |-> res,
     origin |-> origin, after |-> after]

\* A force_flush() or emit() call as an observer sees it: the operation, the
\* processor calls it made in order, what it returned, the logger it went
\* through (emit) and whether the winning shutdown of the state of the handle
\* had returned when it was made.
Observed(op, calls, result, logger, after) ==
    [op |-> op, calls |-> calls, result |-> result, logger |-> logger, after |-> after]

NoLogger == [st |-> NOOP, from |-> NOOP, when |-> "none"]
NoCall == Observed("none", <<>>, NoResult, NoLogger, FALSE)

HasReturned(st) == returned[st].kind # "None"

\* ---- shared ownership ---------------------------------------------------
\* The number of live loggers among the kinds K.
CountLoggers(K) ==
    Cardinality({x \in K \X (1..MaxLoggers) : x[2] <= loggers[x[1]]})

KindsOf == [st \in Inners |-> {k \in LoggerKinds : k.st = st}]
LoggersOf(st) == CountLoggers(KindsOf[st])
TotalLoggers == CountLoggers(LoggerKinds)

\* A count in which a logger holds no share of the state.
StrongCountHandlesOnly(st) == handles[st]

\* Arc<LoggerProviderInner> strong count: one per live handle (the static
\* NOOP_LOGGER_PROVIDER is one) and one per live logger, which holds a handle.
StrongCount(st) == handles[st] + LoggersOf(st)

\* Handles of st borrowed (&self) by the calls in progress on them.
Borrowed(st) == Cardinality({f \in inflight : f.st = st /\ f.origin = "explicit"})

\* Some thread is not inside a sweep and can make a call.
ThreadFree == Cardinality(inflight) < NumThreads

\* ---- Resource -----------------------------------------------------------
\* A resource is its attribute map; a key that is not set maps to Absent.
Absent == "absent"
AttrKeys == {"key1", "k3", "service.name", "telemetry.sdk.language",
             "telemetry.sdk.name", "telemetry.sdk.version"}

\* Resource::empty() and Resource::builder_empty().build()
EmptyResource == [k \in AttrKeys |-> Absent]

Attributes(r) == {k \in AttrKeys : r[k] # Absent}

\* existing.merge(&other): a key set in both keeps the value of existing.
Merge(existing, other) ==
    [k \in AttrKeys |-> IF existing[k] # Absent THEN existing[k] ELSE other[k]]

\* OTEL_RESOURCE_ATTRIBUTES is unset (FALSE) or holds "k3=value2" (TRUE).
Envs == BOOLEAN

\* Resource::builder().build(): the service name, the telemetry.sdk.*
\* attributes and the attributes of OTEL_RESOURCE_ATTRIBUTES.
DefaultResource(env) ==
    [k \in AttrKeys |->
        CASE k = "service.name" -> "unknown_service"
          [] k = "telemetry.sdk.language" -> "rust"
          [] k = "telemetry.sdk.name" -> "opentelemetry"
          [] k = "telemetry.sdk.version" -> "CARGO_PKG_VERSION"
          [] k = "k3" -> IF env THEN "value2" ELSE Absent
          [] OTHER -> Absent]

\* The resources callers hand to with_resource.
Descriptors ==
    {[k \in AttrKeys |-> IF k = "key1" THEN a
                         ELSE IF k = "service.name" THEN b ELSE Absent] :
        a \in {Absent, "value1", "value1b"}, b \in {Absent, "test_service"}}

\* Option<Resource>
None == [some |-> FALSE, attrs |-> EmptyResource]
Some(r) == [some |-> TRUE, attrs |-> r]

\* ---- LoggerProviderBuilder ----------------------------------------------
\* phase: "open" while with_* calls are made, "setting" inside build(),
\* "built" when build() has returned.  processors holds the kind of each
\* processor pushed, the i-th being processor i; given is the resources
\* with_resource received, in call order; final is the resource build()
\* resolved; calls is the set_resource calls made, in order.
Builder(phase, env, procs, resource, given, final, calls) ==
    [phase |-> phase, env |-> env, processors |-> procs, resource |-> resource,
     given |-> given, final |-> final, calls |-> calls]

SetResourceCall(p, resource) == [p |-> p, resource |-> resource]

\* SdkLoggerProvider::builder(): LoggerProviderBuilder::default()
NewBuilder(env) == Builder("open", env, <<>>, None, <<>>, EmptyResource, <<>>)

\* What is left of builder().with_log_processor(..) (n times) .build() with
\* OTEL_RESOURCE_ATTRIBUTES unset.
BuiltPlain(n) ==
    Builder("built", FALSE, [i \in 1..n |-> "custom"], None, <<>>, DefaultResource(FALSE),
            [i \in 1..n |-> SetResourceCall(i, DefaultResource(FALSE))])

Init ==
    /\ \E n \in 0..MaxProcs :
         /\ processors = [st \in Inners |-> IF st = 1 THEN [i \in 1..n |-> i] ELSE <<>>]
         /\ builder = BuiltPlain(n)
    /\ is_shutdown = [st \in Inners |-> FALSE]
    /\ alive = [st \in Inners |-> IF st = 1 THEN "live" ELSE "none"]
    /\ handles = [st \in Inners |-> IF st = 1 THEN 1 ELSE 0]
    /\ loggers = [k \in LoggerKinds |-> 0]
    /\ inflight = {}
    /\ ret = NoResult
    /\ sdCalls = <<>>
    /\ last = NoCall
    /\ returned = [st \in Inners |-> NoResult]
    /\ won = [st \in Inners |-> 0]

\* ---- noop_logger_provider() ---------------------------------------------
\* OnceLock::get_or_init: the first demand creates the inner state with no
\* processors and is_shutdown = true, held by the static; later demands
\* find it.
NoopProcessors(ps) == [ps EXCEPT ![NOOP] = <<>>]

\* A noop state created the way build() creates one, with the flag false.
NoopFlagFalse(fl) == [fl EXCEPT ![NOOP] = FALSE]

NoopFlag(fl) == [fl EXCEPT ![NOOP] = TRUE]

\* A noop provider made anew, with a share of its own, on every demand.
noop_logger_provider_fresh ==
    /\ processors' = NoopProcessors(processors)
    /\ is_shutdown' = NoopFlag(is_shutdown)
    /\ alive' = [alive EXCEPT ![NOOP] = "live"]
    /\ handles' = [handles EXCEPT ![NOOP] = @ + 1]

noop_logger_provider ==
    IF alive[NOOP] = "none"
    THEN /\ processors' = NoopProcessors(processors)
         /\ is_shutdown' = NoopFlag(is_shutdown)
         /\ alive' = [alive EXCEPT ![NOOP] = "live"]
         /\ handles' = [handles EXCEPT ![NOOP] = 1]
    ELSE UNCHANGED <<processors, is_shutdown, alive, handles>>

\* ---- SdkLoggerProvider::clone --------------------------------------------
\* A clone that copies the inner state: a processor list and a flag of its own.
CloneCopiesState(st) ==
    /\ ThreadFree
    /\ st \in Providers
    /\ handles[st] >= 1
    /\ \E new \in Providers :
         /\ alive[new] = "none"
         /\ processors' = [processors EXCEPT ![new] = processors[st]]
         /\ is_shutdown' = [is_shutdown EXCEPT ![new] = FALSE]
         /\ alive' = [alive EXCEPT ![new] = "live"]
         /\ handles' = [handles EXCEPT ![new] = 1]
    /\ UNCHANGED <<builder, loggers, inflight, ret, sdCalls, last, returned, won>>

\* #[derive(Clone)] on a struct whose one field is the Arc: Arc::clone.
Clone(st) ==
    /\ ThreadFree
    /\ st \in Providers
    /\ handles[st] >= 1
    /\ handles[st] < MaxHandles
    /\ handles' = [handles EXCEPT ![st] = @ + 1]
    /\ UNCHANGED <<builder, processors, is_shutdown, alive, loggers, inflight, ret, sdCalls,
                   last, returned, won>>

\* ---- SdkLoggerProvider::logger / logger_with_scope -----------------------
\* A logger_with_scope without the flag test: always self.clone().
LoggerTargetSelf(st) == st

\* A logger_with_scope that hands out the noop provider unconditionally.
LoggerTargetNoop(st) == NOOP

\* The inner state the new logger's handle refers to: the noop one when the
\* flag reads true, self.clone() otherwise.
LoggerTarget(st) == IF is_shutdown[st] THEN NOOP ELSE st

IssuedWhen(st) ==
    IF HasReturned(st) THEN "after" ELSE IF won[st] > 0 THEN "during" ELSE "before"

LoggerWithScope(st) ==
    /\ ThreadFree
    /\ st \in Providers
    /\ handles[st] >= 1
    /\ TotalLoggers < MaxLoggers
    /\ LET target == LoggerTarget(st)
           k == [st |-> target, from |-> st, when |-> IssuedWhen(st)]
       IN /\ loggers' = [loggers EXCEPT ![k] = @ + 1]
          /\ IF target = NOOP
             THEN noop_logger_provider
             ELSE UNCHANGED <<processors, is_shutdown, alive, handles>>
    /\ UNCHANGED <<builder, inflight, ret, sdCalls, last,
                   returned, won>>

\* ---- SdkLogger::emit ------------------------------------------------------
\* Calls emit on every processor of the provider the logger holds, in order.
EmitCalls(k) ==
    [i \in 1..Len(processors[k.st]) |->
        Call(k.st, processors[k.st][i], "emit", 0, ProcOk, "emit", HasReturned(k.st))]

Emit(k) ==
    /\ ThreadFree
    /\ loggers[k] >= 1
    /\ last' = Observed("emit", EmitCalls(k), NoResult, k, HasReturned(k.from))
    /\ UNCHANGED <<builder, processors, is_shutdown, alive, handles, loggers, inflight, ret,
                   sdCalls, returned, won>>

\* ---- SdkLoggerProvider::force_flush ---------------------------------------
\* A result that looks at the last processor only.
FlushResultOfLast(results) ==
    IF results = <<>> \/ results[Len(results)] = ProcOk
    THEN Ok
    ELSE InternalFailure(results)

\* Ok when every processor returned Ok, else InternalFailure("errs: {result:?}")
\* over the whole result vector.
FlushResult(results) ==
    IF \A i \in 1..Len(results) : results[i] = ProcOk
    THEN Ok
    ELSE InternalFailure(results)

\* A force_flush that returns Ok at once, calling nobody, when the flag is set.
ForceFlushUnlessShutdown(st) ==
    /\ ThreadFree
    /\ st \in Inners
    /\ handles[st] >= 1
    /\ LET n == IF is_shutdown[st] THEN 0 ELSE Len(processors[st])
       IN \E oks \in [1..n -> BOOLEAN] :
            LET results == [i \in 1..n |-> IF oks[i] THEN ProcOk ELSE ProcErr(processors[st][i])]
                calls == [i \in 1..n |->
                            Call(st, processors[st][i], "force_flush", 0, results[i],
                                 "flush", HasReturned(st))]
            IN last' = Observed("force_flush", calls, FlushResult(results), NoLogger,
                                HasReturned(st))
    /\ UNCHANGED <<builder, processors, is_shutdown, alive, handles, loggers, inflight, ret,
                   sdCalls, returned, won>>

ForceFlush(st) ==
    /\ ThreadFree
    /\ st \in Inners
    /\ handles[st] >= 1
    /\ LET n == Len(processors[st])
       IN \E oks \in [1..n -> BOOLEAN] :
            LET results == [i \in 1..n |-> IF oks[i] THEN ProcOk ELSE ProcErr(processors[st][i])]
                calls == [i \in 1..n |->
                            Call(st, processors[st][i], "force_flush", 0, results[i],
                                 "flush", HasReturned(st))]
            IN last' = Observed("force_flush", calls, FlushResult(results), NoLogger,
                                HasReturned(st))
    /\ UNCHANGED <<builder, processors, is_shutdown, alive, handles, loggers, inflight, ret,
                   sdCalls, returned, won>>

\* ---- SdkLoggerProvider::shutdown_with_timeout -----------------------------
\* A plain store of true in place of the compare-and-set: every caller proceeds.
CompareExchangeAlways(st) == TRUE

\* compare_exchange(false, true).is_ok()
CompareExchangeOk(st) == is_shutdown[st] = FALSE

\* A shutdown whose winner flushes every processor before it sweeps.
ShutdownFlushesFirst(st, timeout) ==
    /\ ThreadFree
    /\ st \in Inners
    /\ handles[st] >= 1
    /\ IF CompareExchangeOk(st)
       THEN /\ is_shutdown' = [is_shutdown EXCEPT ![st] = TRUE]
            /\ inflight' = inflight \cup
                  {Frame(st, 1, timeout, <<>>, "explicit", won[st] + 1)}
            /\ won' = [won EXCEPT ![st] = @ + 1]
            /\ last' = Observed("force_flush",
                                [i \in 1..Len(processors[st]) |->
                                    Call(st, processors[st][i], "force_flush", 0, ProcOk,
                                         "explicit", FALSE)],
                                Ok, NoLogger, FALSE)
            /\ UNCHANGED ret
       ELSE /\ ret' = AlreadyShutdown
            /\ UNCHANGED <<is_shutdown, inflight, won, last>>
    /\ UNCHANGED <<builder, processors, alive, handles, loggers, sdCalls, returned>>

\* A shutdown whose flag is one static shared by every built state.
ShutdownSharedFlag(st, timeout) ==
    /\ ThreadFree
    /\ st \in Inners
    /\ handles[st] >= 1
    /\ IF CompareExchangeOk(st)
       THEN /\ is_shutdown' = [s \in Inners |-> IF s \in Providers THEN TRUE
                                                ELSE is_shutdown[s]]
            /\ inflight' = inflight \cup
                  {Frame(st, 1, timeout, <<>>, "explicit", won[st] + 1)}
            /\ won' = [won EXCEPT ![st] = @ + 1]
            /\ UNCHANGED ret
       ELSE /\ ret' = AlreadyShutdown
            /\ UNCHANGED <<is_shutdown, inflight, won>>
    /\ UNCHANGED <<builder, processors, alive, handles, loggers, sdCalls, last, returned>>

\* A shutdown whose losing callers block until the winner has returned.
ShutdownWaitsForWinner(st, timeout) ==
    /\ ThreadFree
    /\ st \in Inners
    /\ handles[st] >= 1
    /\ IF CompareExchangeOk(st)
       THEN /\ is_shutdown' = [is_shutdown EXCEPT ![st] = TRUE]
            /\ inflight' = inflight \cup
                  {Frame(st, 1, timeout, <<>>, "explicit", won[st] + 1)}
            /\ won' = [won EXCEPT ![st] = @ + 1]
            /\ UNCHANGED ret
       ELSE /\ HasReturned(st)
            /\ ret' = AlreadyShutdown
            /\ UNCHANGED <<is_shutdown, inflight, won>>
    /\ UNCHANGED <<builder, processors, alive, handles, loggers, sdCalls, last, returned>>

\* A shutdown whose winner starts the sweep without writing the flag.
ShutdownSweepsUnflagged(st, timeout) ==
    /\ ThreadFree
    /\ st \in Inners
    /\ handles[st] >= 1
    /\ IF CompareExchangeOk(st)
       THEN /\ inflight' = inflight \cup
                  {Frame(st, 1, timeout, <<>>, "explicit", won[st] + 1)}
            /\ won' = [won EXCEPT ![st] = @ + 1]
            /\ UNCHANGED <<ret, is_shutdown>>
       ELSE /\ ret' = AlreadyShutdown
            /\ UNCHANGED <<is_shutdown, inflight, won>>
    /\ UNCHANGED <<builder, processors, alive, handles, loggers, sdCalls, last, returned>>

ShutdownWithTimeout(st, timeout) ==
    /\ ThreadFree
    /\ st \in Inners
    /\ handles[st] >= 1
    /\ IF CompareExchangeOk(st)
       THEN /\ is_shutdown' = [is_shutdown EXCEPT ![st] = TRUE]
            /\ inflight' = inflight \cup
                  {Frame(st, 1, timeout, <<>>, "explicit", won[st] + 1)}
            /\ won' = [won EXCEPT ![st] = @ + 1]
            /\ UNCHANGED ret
       ELSE /\ ret' = AlreadyShutdown
            /\ UNCHANGED <<is_shutdown, inflight, won>>
    /\ UNCHANGED <<builder, processors, alive, handles, loggers, sdCalls, last, returned>>

\* ---- SdkLoggerProvider::shutdown ------------------------------------------
\* A shutdown() with another default than the sweep of Drop uses.
ShutdownShortDefault(st) == ShutdownWithTimeout(st, 2)

\* self.shutdown_with_timeout(Duration::from_secs(5))
Shutdown(st) == ShutdownWithTimeout(st, DefaultTimeout)

\* ---- LoggerProviderInner::shutdown_with_timeout ---------------------------
\* A loop that gives up at the first processor that fails.
SweepStopsAtError(st, idx, results) ==
    \/ idx > Len(processors[st])
    \/ \E i \in 1..Len(results) : results[i] # ProcOk

\* The for loop runs over every processor; an Err is logged and pushed like
\* an Ok, the loop goes on.
SweepFinished(st, idx, results) == idx > Len(processors[st])

InnerShutdownStep(f) ==
    /\ f \in inflight
    /\ ~SweepFinished(f.st, f.idx, f.results)
    /\ \E ok \in BOOLEAN :
         LET p == processors[f.st][f.idx]
             res == IF ok THEN ProcOk ELSE ProcErr(p)
         IN /\ sdCalls' = Append(sdCalls, Call(f.st, p, "shutdown", f.timeout, res, f.origin, FALSE))
            /\ inflight' = (inflight \ {f}) \cup
                  {Frame(f.st, f.idx + 1, f.timeout, Append(f.results, res), f.origin, f.call)}
    /\ UNCHANGED <<builder, processors, is_shutdown, alive, handles, loggers, ret,
                   last, returned, won>>

\* A result that reports the first error only.
ShutdownResultFirstErr(results) ==
    IF \A i \in 1..Len(results) : results[i] = ProcOk
    THEN Ok
    ELSE InternalFailure(<<Head(SelectSeq(results, LAMBDA r : r # ProcOk))>>)

\* result.iter().all(is_ok) ? Ok : InternalFailure(all the Err values)
ShutdownResult(results) ==
    IF \A i \in 1..Len(results) : results[i] = ProcOk
    THEN Ok
    ELSE InternalFailure(SelectSeq(results, LAMBDA r : r # ProcOk))

\* A shutdown that clears the flag again when a processor failed, so that
\* the caller can retry.
ShutdownReturnRetry(f) ==
    /\ f \in inflight
    /\ f.origin = "explicit"
    /\ SweepFinished(f.st, f.idx, f.results)
    /\ ret' = ShutdownResult(f.results)
    /\ returned' = [returned EXCEPT ![f.st] = ShutdownResult(f.results)]
    /\ inflight' = inflight \ {f}
    /\ is_shutdown' = [is_shutdown EXCEPT ![f.st] = (ShutdownResult(f.results) = Ok)]
    /\ UNCHANGED <<builder, processors, alive, handles, loggers, sdCalls, last, won>>

\* A shutdown that empties the processor list once the sweep is over.
ShutdownReturnClears(f) ==
    /\ f \in inflight
    /\ f.origin = "explicit"
    /\ SweepFinished(f.st, f.idx, f.results)
    /\ ret' = ShutdownResult(f.results)
    /\ returned' = [returned EXCEPT ![f.st] = ShutdownResult(f.results)]
    /\ inflight' = inflight \ {f}
    /\ processors' = [processors EXCEPT ![f.st] = <<>>]
    /\ UNCHANGED <<builder, is_shutdown, alive, handles, loggers, sdCalls, last, won>>

ShutdownReturn(f) ==
    /\ f \in inflight
    /\ f.origin = "explicit"
    /\ SweepFinished(f.st, f.idx, f.results)
    /\ ret' = ShutdownResult(f.results)
    /\ returned' = [returned EXCEPT ![f.st] = ShutdownResult(f.results)]
    /\ inflight' = inflight \ {f}
    /\ UNCHANGED <<builder, processors, is_shutdown, alive, handles, loggers, sdCalls,
                   last, won>>

\* ---- impl Drop for LoggerProviderInner ------------------------------------
\* Drop that sweeps without looking at the flag.
DropShutdownAlways(st) == TRUE

\* Drop that never sweeps.
DropShutdownNever(st) == FALSE

DropNeedsShutdown(st) == ~is_shutdown[st]

\* Runs in the thread that released the last share.
InnerDrop(st) ==
    IF DropNeedsShutdown(st)
    THEN /\ inflight' = inflight \cup {Frame(st, 1, InnerDefaultTimeout, <<>>, "drop", 0)}
         /\ alive' = [alive EXCEPT ![st] = "dropping"]
    ELSE /\ alive' = [alive EXCEPT ![st] = "dropped"]
         /\ UNCHANGED inflight

\* let _ = self.shutdown(): the results are thrown away.
DropReturn(f) ==
    /\ f \in inflight
    /\ f.origin = "drop"
    /\ SweepFinished(f.st, f.idx, f.results)
    /\ alive' = [alive EXCEPT ![f.st] = "dropped"]
    /\ inflight' = inflight \ {f}
    /\ UNCHANGED <<builder, processors, is_shutdown, handles, loggers, ret, sdCalls,
                   last, returned, won>>

\* ---- releasing a share (Arc::drop) ----------------------------------------
\* A handle can be dropped when no call in progress borrows it.
DropHandle(st) ==
    /\ ThreadFree
    /\ st \in Providers
    /\ handles[st] > Borrowed(st)
    /\ handles' = [handles EXCEPT ![st] = @ - 1]
    /\ IF StrongCount(st) = 1
       THEN InnerDrop(st)
       ELSE UNCHANGED <<inflight, alive>>
    /\ UNCHANGED <<builder, processors, is_shutdown, loggers, ret, sdCalls,
                   last, returned, won>>

DropLogger(k) ==
    /\ ThreadFree
    /\ loggers[k] >= 1
    /\ loggers' = [loggers EXCEPT ![k] = @ - 1]
    /\ IF StrongCount(k.st) = 1
       THEN InnerDrop(k.st)
       ELSE UNCHANGED <<inflight, alive>>
    /\ UNCHANGED <<builder, processors, is_shutdown, handles, ret, sdCalls,
                   last, returned, won>>

Next ==
    \/ \E st \in Inners : Clone(st)
    \/ \E st \in Inners : LoggerWithScope(st)
    \/ \E k \in LoggerKinds : Emit(k)
    \/ \E st \in Inners : ForceFlush(st)
    \/ \E st \in Inners, timeout \in Timeouts : ShutdownWithTimeout(st, timeout)
    \/ \E st \in Inners : Shutdown(st)
    \/ \E f \in inflight : InnerShutdownStep(f)
    \/ \E f \in inflight : ShutdownReturn(f)
    \/ \E f \in inflight : DropReturn(f)
    \/ \E st \in Inners : DropHandle(st)
    \/ \E k \in LoggerKinds : DropLogger(k)

Spec == Init /\ [][Next]_vars

\* A thread inside a sweep keeps running: while a sweep is in progress, some
\* sweep takes its next step (one provider is built, so there is at most one).
SweepProgress ==
    \E f \in inflight : InnerShutdownStep(f) \/ ShutdownReturn(f) \/ DropReturn(f)

FairSpec == Spec /\ WF_vars(SweepProgress)

\* ---- LoggerProviderBuilder::with_log_processor -----------------------------
\* A with_log_processor that puts the new processor in front of the others.
with_log_processor_front(kind) ==
    /\ builder.phase = "open"
    /\ Len(builder.processors) < MaxProcs
    /\ builder' = [builder EXCEPT !.processors = <<kind>> \o @]
    /\ UNCHANGED <<processors, is_shutdown, alive, handles, loggers, inflight, ret,
                   sdCalls, last, returned, won>>

\* processors.push(Box::new(processor))
with_log_processor(kind) ==
    /\ builder.phase = "open"
    /\ Len(builder.processors) < MaxProcs
    /\ builder' = [builder EXCEPT !.processors = Append(@, kind)]
    /\ UNCHANGED <<processors, is_shutdown, alive, handles, loggers, inflight, ret,
                   sdCalls, last, returned, won>>

WithLogProcessor == with_log_processor("custom")

\* ---- LoggerProviderBuilder::with_simple_exporter ---------------------------
WithSimpleExporter ==
    /\ builder.phase = "open"
    /\ Len(builder.processors) < MaxProcs
    /\ builder' = [builder EXCEPT !.processors = Append(@, "simple")]
    /\ UNCHANGED <<processors, is_shutdown, alive, handles, loggers, inflight, ret,
                   sdCalls, last, returned, won>>

\* ---- LoggerProviderBuilder::with_batch_exporter ----------------------------
WithBatchExporter == with_log_processor("batch")

\* ---- LoggerProviderBuilder::with_resource ----------------------------------
\* A with_resource that drops what was given before.
AccumulatedReplace(existing, resource) == Some(resource)

\* Some(existing) => Some(existing.merge(&resource)), None => Some(resource)
Accumulated(existing, resource) ==
    IF existing.some THEN Some(Merge(existing.attrs, resource)) ELSE Some(resource)

WithResource(resource) ==
    /\ builder.phase = "open"
    /\ Len(builder.given) < MaxResources
    /\ builder' = [builder EXCEPT !.resource = Accumulated(builder.resource, resource),
                                  !.given = Append(@, resource)]
    /\ UNCHANGED <<processors, is_shutdown, alive, handles, loggers, inflight, ret,
                   sdCalls, last, returned, won>>

\* ---- LoggerProviderBuilder::build ------------------------------------------
\* A build that falls back to the empty resource.
FinalResourceEmptyDefault(resource, env) ==
    IF resource.some THEN resource.attrs ELSE EmptyResource

\* A build that merges the given resource into the default one.
FinalResourceOverDefault(resource, env) ==
    IF resource.some THEN Merge(resource.attrs, DefaultResource(env))
    ELSE DefaultResource(env)

\* self.resource.unwrap_or(Resource::builder().build())
FinalResource(resource, env) ==
    IF resource.some THEN resource.attrs ELSE DefaultResource(env)

BuildBegin ==
    /\ builder.phase = "open"
    /\ builder' = [builder EXCEPT !.phase = "setting",
                                  !.final = FinalResource(builder.resource, builder.env)]
    /\ UNCHANGED <<processors, is_shutdown, alive, handles, loggers, inflight, ret,
                   sdCalls, last, returned, won>>

\* A loop that leaves out the last processor.
SetResourceDoneEarly == Len(builder.calls) >= Len(builder.processors) - 1

\* for processor in &mut processors
SetResourceDone == Len(builder.calls) = Len(builder.processors)

\* processor.set_resource(&resource)
BuildSetResource ==
    /\ builder.phase = "setting"
    /\ ~SetResourceDone
    /\ builder' = [builder EXCEPT
                      !.calls = Append(@, SetResourceCall(Len(@) + 1, builder.final))]
    /\ UNCHANGED <<processors, is_shutdown, alive, handles, loggers, inflight, ret,
                   sdCalls, last, returned, won>>

\* The Arc::new(LoggerProviderInner {processors, is_shutdown: false}) and the
\* return of the handle; the builder was moved into build() and is gone.
BuildReturn ==
    /\ builder.phase = "setting"
    /\ SetResourceDone
    /\ alive[1] = "none"
    /\ processors' = [processors EXCEPT ![1] = [i \in 1..Len(builder.processors) |-> i]]
    /\ is_shutdown' = [is_shutdown EXCEPT ![1] = FALSE]
    /\ alive' = [alive EXCEPT ![1] = "live"]
    /\ handles' = [handles EXCEPT ![1] = 1]
    /\ builder' = [builder EXCEPT !.phase = "built", !.given = <<>>]
    /\ UNCHANGED <<loggers, inflight, ret, sdCalls, last, returned, won>>

\* A builder not yet used, no provider built.
BuilderInit ==
    /\ \E env \in Envs : builder = NewBuilder(env)
    /\ processors = [st \in Inners |-> <<>>]
    /\ is_shutdown = [st \in Inners |-> FALSE]
    /\ alive = [st \in Inners |-> "none"]
    /\ handles = [st \in Inners |-> 0]
    /\ loggers = [k \in LoggerKinds |-> 0]
    /\ inflight = {}
    /\ ret = NoResult
    /\ sdCalls = <<>>
    /\ last = NoCall
    /\ returned = [st \in Inners |-> NoResult]
    /\ won = [st \in Inners |-> 0]

\* The builder's calls, build() one set_resource call per step, and the first
\* uses of the handle it returns.
BuilderNext ==
    \/ WithLogProcessor
    \/ WithSimpleExporter
    \/ WithBatchExporter
    \/ \E resource \in Descriptors : WithResource(resource)
    \/ BuildBegin
    \/ BuildSetResource
    \/ BuildReturn
    \/ \E st \in Inners : LoggerWithScope(st)
    \/ \E k \in LoggerKinds : Emit(k)

BuilderSpec == BuilderInit /\ [][BuilderNext]_vars

\* ---- two providers ---------------------------------------------------------
\* The number of processors each of the two providers is built with.
TwoProcs == {0, 1}

\* Two build() calls have returned: provider 1 with processors 1..n, provider
\* 2 with processors MaxProcs+1..MaxProcs+m, one handle each.
TwoInit ==
    /\ \E n \in TwoProcs, m \in TwoProcs :
         /\ processors = [st \in Inners |->
                            IF st = 1 THEN [i \in 1..n |-> i]
                            ELSE IF st = 2 THEN [i \in 1..m |-> MaxProcs + i]
                            ELSE <<>>]
         /\ builder = BuiltPlain(m)
    /\ is_shutdown = [st \in Inners |-> FALSE]
    /\ alive = [st \in Inners |-> IF st \in Providers THEN "live" ELSE "none"]
    /\ handles = [st \in Inners |-> IF st \in Providers THEN 1 ELSE 0]
    /\ loggers = [k \in LoggerKinds |-> 0]
    /\ inflight = {}
    /\ ret = NoResult
    /\ sdCalls = <<>>
    /\ last = NoCall
    /\ returned = [st \in Inners |-> NoResult]
    /\ won = [st \in Inners |-> 0]

\* logger(), force_flush(), shutdown() and release on either provider, the
\* steps of their sweeps included.
TwoNext ==
    \/ \E st \in Inners : LoggerWithScope(st)
    \/ \E st \in Inners : ForceFlush(st)
    \/ \E st \in Inners : Shutdown(st)
    \/ \E f \in inflight : InnerShutdownStep(f)
    \/ \E f \in inflight : ShutdownReturn(f)
    \/ \E f \in inflight : DropReturn(f)
    \/ \E st \in Inners : DropHandle(st)
    \/ \E k \in LoggerKinds : DropLogger(k)

TwoSpec == TwoInit /\ [][TwoNext]_vars

TypeOK ==
    /\ \A st \in Inners : is_shutdown[st] \in BOOLEAN
    /\ \A st \in Inners : alive[st] \in {"none", "live", "dropping", "dropped"}
    /\ \A st \in Inners : handles[st] \in 0..MaxHandles
    /\ TotalLoggers <= MaxLoggers
    /\ Cardinality(inflight) <= NumThreads

\* ==========================================================================
\* Properties
\* ==========================================================================

NumProcs(st) == Len(processors[st])

\* The shutdown calls processor p of state st has received.
ShutdownCount(st, p) ==
    Cardinality({i \in 1..Len(sdCalls) : sdCalls[i].st = st /\ sdCalls[i].p = p})

AllShutdownOnce(st) ==
    \A i \in 1..NumProcs(st) : ShutdownCount(st, processors[st][i]) = 1

\* The shutdown calls made on processors of st by the given origin, in order.
SdCallsOf(st, origin) == SelectSeq(sdCalls, LAMBDA c : c.st = st /\ c.origin = origin)

\* The processors that received them, in order.
SdSeq(st, origin) ==
    LET sel == SdCallsOf(st, origin) IN [i \in 1..Len(sel) |-> sel[i].p]

IsPrefix(s, t) == Len(s) <= Len(t) /\ \A i \in 1..Len(s) : s[i] = t[i]

ExplicitFrames(st) == {f \in inflight : f.st = st /\ f.origin = "explicit"}
DropFrames(st) == {f \in inflight : f.st = st /\ f.origin = "drop"}

NoProcessorCalled == sdCalls' = sdCalls /\ last' = last

\* C1: under every interleaving of clone, logger(), emit, force_flush(),
\* shutdown and release, each processor has received shutdown_with_timeout
\* zero times or once, whether from an explicit shutdown or from the drop of
\* the last share.
C1_ShutdownAtMostOnce ==
    \A st \in Inners : \A i \in 1..NumProcs(st) :
        ShutdownCount(st, processors[st][i]) <= 1

\* An explicit shutdown swept two processors, a later call was refused, and
\* every share has been released since.
C1_Witness ==
    /\ alive[1] = "dropped"
    /\ won[1] = 1
    /\ NumProcs(1) >= 2
    /\ AllShutdownOnce(1)
    /\ returned[1] = Ok
    /\ ret = AlreadyShutdown

\* C2: once a first shutdown call on a state has returned (Ok or
\* InternalFailure), every later shutdown call on that state, through any
\* handle, returns AlreadyShutdown and calls no processor method.
C2_LaterShutdownAlreadyShutdown ==
    [][\A st \in Providers, timeout \in Timeouts :
         (ShutdownWithTimeout(st, timeout) /\ HasReturned(st))
         => /\ ret' = AlreadyShutdown
            /\ inflight' = inflight
            /\ is_shutdown' = is_shutdown
            /\ NoProcessorCalled]_vars

\* The winning call returned InternalFailure and a call made after that came
\* back AlreadyShutdown (ret holds the latest return).
C2_Witness ==
    /\ returned[1].kind = "InternalFailure"
    /\ ret = AlreadyShutdown
    /\ handles[1] >= 2

\* C3: of the shutdown calls racing on one state exactly one wins the
\* compare-and-set and sweeps; a call that finds another call has won
\* returns AlreadyShutdown and calls no processor, and only the winner is
\* ever inside the sweep.
C3_ExactlyOneWinner ==
    /\ [](\A st \in Providers :
            /\ won[st] <= 1
            /\ Cardinality(ExplicitFrames(st)) <= 1
            /\ (ExplicitFrames(st) # {} \/ HasReturned(st) => won[st] = 1)
            /\ Len(SdSeq(st, "explicit")) <= NumProcs(st))
    /\ [][\A st \in Providers, timeout \in Timeouts :
            ShutdownWithTimeout(st, timeout)
            => IF won[st] = 0
               THEN /\ won'[st] = 1
                    /\ inflight' = inflight \cup {Frame(st, 1, timeout, <<>>, "explicit", 1)}
               ELSE /\ ret' = AlreadyShutdown
                    /\ inflight' = inflight
                    /\ NoProcessorCalled]_vars

\* The winner is inside its sweep, one processor called and one to go,
\* while another caller has already been told AlreadyShutdown.
C3_Witness ==
    \E f \in inflight :
        /\ f.origin = "explicit" /\ f.idx = 2
        /\ NumProcs(f.st) >= 2
        /\ ret = AlreadyShutdown

\* C4: the shutdown call that wins the transition calls shutdown_with_timeout
\* on P1..PN in registration order, each once, and goes on after a processor
\* has failed: while it sweeps the calls made are a prefix of the processor
\* list, as long as the frame says, and when it has returned they are the
\* whole list.
C4_SweepInOrderPastFailures ==
    \A st \in Providers :
        /\ IsPrefix(SdSeq(st, "explicit"), processors[st])
        /\ \A f \in ExplicitFrames(st) : Len(SdSeq(st, "explicit")) = f.idx - 1
        /\ (HasReturned(st) => SdSeq(st, "explicit") = processors[st])

\* The winning call has returned after the first of two processors failed
\* and the second was still called.
C4_Witness ==
    /\ HasReturned(1)
    /\ NumProcs(1) >= 2
    /\ Len(SdCallsOf(1, "explicit")) = NumProcs(1)
    /\ SdCallsOf(1, "explicit")[1].res # ProcOk
    /\ SdCallsOf(1, "explicit")[2].res = ProcOk

\* The processors of st whose shutdown, called by the explicit sweep, failed.
FailedInSweep(st) ==
    {c.p : c \in {sdCalls[i] : i \in {j \in 1..Len(sdCalls) :
              sdCalls[j].st = st /\ sdCalls[j].origin = "explicit" /\ sdCalls[j].res # ProcOk}}}

\* C5: the winning shutdown call returns after the last processor was
\* called; it returns Ok exactly when every processor returned Ok (so with
\* no processors), and otherwise one InternalFailure carrying the error of
\* every processor that failed, not only the first.
C5_AggregatedResult ==
    \A st \in Providers :
        HasReturned(st) =>
            /\ Len(SdCallsOf(st, "explicit")) = NumProcs(st)
            /\ (returned[st] = Ok <=> FailedInSweep(st) = {})
            /\ (FailedInSweep(st) # {} =>
                  /\ returned[st].kind = "InternalFailure"
                  /\ Len(returned[st].errs) = Cardinality(FailedInSweep(st))
                  /\ \A p \in FailedInSweep(st) :
                        \E j \in 1..Len(returned[st].errs) : returned[st].errs[j] = ProcErr(p))

\* Both processors failed and the call's InternalFailure carries both errors.
C5_Witness ==
    /\ returned[1].kind = "InternalFailure"
    /\ Len(returned[1].errs) = 2
    /\ ret = returned[1]

\* A step of the release path: the release of the last share, or a step of
\* the thread that is inside Drop.
LastShareReleased(st) ==
    /\ handles'[st] # handles[st] \/ loggers' # loggers
    /\ StrongCount(st) = 1
    /\ StrongCount(st)' = 0
DropPathStep(st) ==
    \/ LastShareReleased(st)
    \/ \E f \in DropFrames(st) : f \notin inflight'

C7_NoSweepAfterExplicitShutdown ==
    /\ [](\A st \in Providers :
            won[st] >= 1 => /\ SdSeq(st, "drop") = <<>>
                            /\ DropFrames(st) = {}
                            /\ alive[st] # "dropping")
    /\ [][\A st \in Providers :
            (LastShareReleased(st) /\ is_shutdown[st]) =>
                /\ NoProcessorCalled
                /\ inflight' = inflight
                /\ alive'[st] = "dropped"]_vars

\* The explicit shutdown returned InternalFailure and the last share was
\* released afterwards.
C7_Witness ==
    /\ alive[1] = "dropped"
    /\ returned[1].kind = "InternalFailure"
    /\ NumProcs(1) >= 2

\* C8: once every handle and every logger of a state has been released,
\* every processor of the state eventually has received shutdown, also when
\* nobody called shutdown; and when Drop is over each processor has received
\* it exactly once.
C8_ReleaseLeadsToShutdown ==
    /\ \A st \in Providers :
         (alive[st] \in {"dropping", "dropped"}) ~> AllShutdownOnce(st)
    /\ [](\A st \in Providers : alive[st] = "dropped" => AllShutdownOnce(st))

\* Nobody called shutdown, every share is gone and both processors were
\* shut down successfully by Drop.
C8_Witness ==
    /\ alive[1] = "dropped"
    /\ won[1] = 0
    /\ NumProcs(1) >= 2
    /\ AllShutdownOnce(1)
    /\ \A i \in 1..Len(sdCalls) : sdCalls[i].res = ProcOk /\ sdCalls[i].origin = "drop"

\* C9: a logger() call made on a handle of a state after an explicit shutdown
\* of that state has returned yields a logger bound to the noop state, which
\* has no processors, so an emit through it calls no processor.
C9_LateLoggerIsNoop ==
    /\ \A k \in LoggerKinds :
          (loggers[k] >= 1 /\ k.when = "after") => (k.st = NOOP /\ processors[NOOP] = <<>>)
    /\ (last.op = "emit" /\ last.logger.when = "after" =>
          (last.logger.st = NOOP /\ last.calls = <<>>))

\* A record was emitted through a logger issued after the shutdown of a
\* state with processors had returned.
C9_Witness ==
    /\ last.op = "emit"
    /\ last.logger.when = "after"
    /\ last.logger.from = 1
    /\ NumProcs(1) >= 1
    /\ alive[NOOP] = "live"

\* C10: a logger issued before the shutdown of its state stays bound to that
\* state, and an emit through it after the shutdown call has returned still
\* calls emit on every processor of the state, in registration order.
C10_EarlyLoggerStillEmits ==
    /\ \A k \in LoggerKinds : (loggers[k] >= 1 /\ k.when = "before") => k.st = k.from
    /\ (last.op = "emit" /\ last.logger.when = "before" /\ last.after =>
          /\ last.logger.st = last.logger.from
          /\ Len(last.calls) = NumProcs(last.logger.from)
          /\ \A i \in 1..Len(last.calls) :
                /\ last.calls[i].op = "emit"
                /\ last.calls[i].st = last.logger.from
                /\ last.calls[i].p = processors[last.logger.from][i])

\* A logger issued before the shutdown emitted after the shutdown call had
\* returned, and both processors received the record.
C10_Witness ==
    /\ last.op = "emit"
    /\ last.logger.when = "before"
    /\ last.after
    /\ HasReturned(1)
    /\ Len(last.calls) >= 2

\* The processors the calls of the latest force_flush() or emit() went to.
LastSeq == [i \in 1..Len(last.calls) |-> last.calls[i].p]

\* C11: force_flush() calls force_flush on every processor of the state, in
\* registration order, with the flag false or true alike; it leaves the flag,
\* the processor list and the record of shutdown calls as they were, and
\* every call of it does so, however many came before.
C11_ForceFlushCallsAll ==
    /\ [](last.op = "force_flush" =>
            \A i \in 1..Len(last.calls) :
                /\ last.calls[i].op = "force_flush"
                /\ LastSeq = processors[last.calls[i].st])
    /\ [][\A st \in Providers :
            ForceFlush(st) =>
                /\ last'.op = "force_flush"
                /\ Len(last'.calls) = NumProcs(st)
                /\ \A i \in 1..NumProcs(st) :
                      /\ last'.calls[i].op = "force_flush"
                      /\ last'.calls[i].st = st
                      /\ last'.calls[i].p = processors[st][i]
                /\ is_shutdown' = is_shutdown
                /\ processors' = processors
                /\ sdCalls' = sdCalls
                /\ inflight' = inflight]_vars

\* A force_flush() made after the shutdown call had returned reached both
\* processors.
C11_Witness ==
    /\ last.op = "force_flush"
    /\ last.after
    /\ is_shutdown[1]
    /\ NumProcs(1) >= 2
    /\ LastSeq = processors[1]

\* C12: force_flush() returns Ok exactly when every processor's force_flush
\* returned Ok (so with no processors), InternalFailure otherwise, and a
\* processor that failed is followed by the calls to all processors after it.
C12_FlushResultAggregated ==
    last.op = "force_flush" =>
        /\ (last.result = Ok <=> \A i \in 1..Len(last.calls) : last.calls[i].res = ProcOk)
        /\ (last.result # Ok => last.result.kind = "InternalFailure")
        /\ \A i \in 1..Len(last.calls) :
              last.calls[i].res # ProcOk => Len(last.calls) = NumProcs(last.calls[i].st)

\* The first processor failed, the second was still called and returned Ok,
\* and the call returned InternalFailure.
C12_Witness ==
    /\ last.op = "force_flush"
    /\ Len(last.calls) >= 2
    /\ last.calls[1].res # ProcOk
    /\ last.calls[2].res = ProcOk
    /\ last.result.kind = "InternalFailure"

\* C13: neither an explicit shutdown nor the sweep run by Drop calls
\* force_flush on a processor: every call a sweep makes is a shutdown call, a
\* step of a shutdown call or of a release leaves the latest force_flush as
\* it was, and a new force_flush observation comes from a force_flush() call.
C13_SweepNeverFlushes ==
    /\ [](\A i \in 1..Len(sdCalls) : sdCalls[i].op = "shutdown")
    /\ [][(sdCalls' # sdCalls \/ inflight' # inflight \/ ret' # ret \/
           alive' # alive \/ is_shutdown' # is_shutdown \/ handles' # handles \/
           loggers' # loggers)
            => last' = last]_vars
    /\ [][(last' # last /\ last'.op = "force_flush")
            => \E st \in Inners : ForceFlush(st)]_vars

\* An explicit shutdown swept both processors, every share has been released
\* and no force_flush was ever observed.
C13_Witness ==
    /\ last = NoCall
    /\ alive[1] = "dropped"
    /\ HasReturned(1)
    /\ Len(SdCallsOf(1, "explicit")) >= 2

\* C14: clone() adds one handle to the same state: it calls no processor and
\* creates no state, flag or processor list; so when the shutdown of a state
\* has returned, a shutdown through any other handle of it returns
\* AlreadyShutdown and a logger() through it yields a noop-bound logger.
C14_ClonesShareState ==
    [][\A st \in Providers :
         /\ Clone(st) =>
               /\ handles'[st] = handles[st] + 1
               /\ StrongCount(st)' = StrongCount(st) + 1
               /\ \A other \in Inners \ {st} : handles'[other] = handles[other]
               /\ alive' = alive
               /\ processors' = processors
               /\ is_shutdown' = is_shutdown
               /\ inflight' = inflight
               /\ NoProcessorCalled
         /\ (handles[st] >= 2 /\ HasReturned(st)) =>
               /\ \A timeout \in Timeouts :
                     ShutdownWithTimeout(st, timeout) => ret' = AlreadyShutdown
               /\ LoggerWithScope(st) =>
                     \A k \in LoggerKinds : loggers'[k] > loggers[k] => k.st = NOOP]_vars

\* Two handles of a state whose shutdown has returned are alive; a second
\* shutdown came back AlreadyShutdown and a logger issued since is bound to
\* the noop state.
C14_Witness ==
    /\ handles[1] >= 2
    /\ HasReturned(1)
    /\ ret = AlreadyShutdown
    /\ \E k \in LoggerKinds : k.st = NOOP /\ k.from = 1 /\ k.when = "after" /\ loggers[k] >= 1

\* Some handle or logger exists, or a handle operation has been observed.
HandleInUse ==
    \/ \E st \in Inners : alive[st] # "none" \/ handles[st] > 0
    \/ TotalLoggers > 0
    \/ last # NoCall

\* C15: build() calls set_resource on every processor once, in registration
\* order, each time with the one resource it resolved; all these calls are
\* made before the handle exists, so before any logger() or emit; and once
\* build() has returned no step adds a set_resource call.
C15_SetResourceOnceBeforeUse ==
    /\ [](/\ Len(builder.calls) <= Len(builder.processors)
          /\ \A i \in 1..Len(builder.calls) :
                /\ builder.calls[i].p = i
                /\ builder.calls[i].resource = builder.final
          /\ (HandleInUse =>
                /\ builder.phase = "built"
                /\ Len(builder.calls) = NumProcs(1)
                /\ \A i \in 1..NumProcs(1) : builder.calls[i].p = processors[1][i]))
    /\ [][builder.phase = "built" => builder' = builder]_vars

\* A record was emitted through a logger of a provider built with two
\* processors and a resource; both had received set_resource by then.
C15_Witness ==
    /\ builder.phase = "built"
    /\ builder.resource.some
    /\ NumProcs(1) >= 2
    /\ Len(builder.calls) = NumProcs(1)
    /\ last.op = "emit"
    /\ Len(last.calls) = NumProcs(1)

\* The value key k has in the earliest of the resources ds that sets it.
FirstValue(ds, k) ==
    LET idx == {i \in 1..Len(ds) : ds[i][k] # Absent}
    IN IF idx = {} THEN Absent
       ELSE ds[CHOOSE i \in idx : \A j \in idx : i <= j][k]

\* C16: after with_resource calls with D1..DK the builder's resource holds
\* the union of their keys, and a key set by several Di has the value of the
\* earliest of them; before the first call the builder has no resource.
C16_WithResourceLeftBiased ==
    builder.phase \in {"open", "setting"} =>
        /\ (builder.given = <<>> <=> ~builder.resource.some)
        /\ (builder.given # <<>> =>
              \A k \in AttrKeys : builder.resource.attrs[k] = FirstValue(builder.given, k))

\* The second call brought another value for key1 and a new key: the value
\* of the first call was kept and the new key was added.
C16_Witness ==
    /\ builder.phase = "open"
    /\ Len(builder.given) = 2
    /\ builder.given[1]["key1"] = "value1"
    /\ builder.given[1]["service.name"] = Absent
    /\ builder.given[2]["key1"] = "value1b"
    /\ builder.given[2]["service.name"] = "test_service"
    /\ builder.resource.attrs["key1"] = "value1"
    /\ builder.resource.attrs["service.name"] = "test_service"

\* C17 as stated: when with_resource was never called, every processor's
\* set_resource receives a resource without attributes.
C17_DefaultResourceIsEmpty ==
    ~builder.resource.some =>
        \A i \in 1..Len(builder.calls) : Attributes(builder.calls[i].resource) = {}

\* C17, amended: when with_resource was never called, every processor's
\* set_resource receives the resource of Resource::builder().build(): the
\* service name unknown_service, the three telemetry.sdk attributes and the
\* attributes of OTEL_RESOURCE_ATTRIBUTES, and nothing else.
C17_DefaultResourcePassed ==
    ~builder.resource.some =>
        \A i \in 1..Len(builder.calls) :
            LET r == builder.calls[i].resource
            IN /\ r["service.name"] = "unknown_service"
               /\ r["telemetry.sdk.language"] = "rust"
               /\ r["telemetry.sdk.name"] = "opentelemetry"
               /\ r["telemetry.sdk.version"] = "CARGO_PKG_VERSION"
               /\ r["k3"] = (IF builder.env THEN "value2" ELSE Absent)
               /\ r["key1"] = Absent

\* A provider was built with two processors and no with_resource call, with
\* OTEL_RESOURCE_ATTRIBUTES unset.
C17_Witness ==
    /\ builder.phase = "built"
    /\ ~builder.resource.some
    /\ ~builder.env
    /\ Len(builder.calls) >= 2
    /\ Cardinality(Attributes(builder.calls[2].resource)) = 4

\* C18: when with_resource was called, every processor's set_resource
\* receives the builder's accumulated resource and nothing more: after one
\* call the attributes are those of the resource given, one for a
\* one-attribute resource and none for the empty one.
C18_GivenResourcePassedAsIs ==
    /\ (builder.resource.some =>
          \A i \in 1..Len(builder.calls) : builder.calls[i].resource = builder.resource.attrs)
    /\ (Len(builder.given) = 1 =>
          \A i \in 1..Len(builder.calls) :
              /\ builder.calls[i].resource = builder.given[1]
              /\ Cardinality(Attributes(builder.calls[i].resource))
                    = Cardinality(Attributes(builder.given[1])))

\* build() is handing the processors the empty resource the one
\* with_resource call gave, while OTEL_RESOURCE_ATTRIBUTES is set.
C18_Witness ==
    /\ builder.phase = "setting"
    /\ builder.env
    /\ builder.given = <<EmptyResource>>
    /\ Len(builder.calls) >= 1
    /\ Attributes(builder.calls[1].resource) = {}

\* C19: the noop state, once created, has no processors and a flag that is
\* true in every state, and it is never swept or dropped; every force_flush
\* on it returns Ok and calls nobody, every shutdown on it returns
\* AlreadyShutdown and changes nothing, whatever was called before.
C19_NoopAlwaysShutDown ==
    /\ [](/\ processors[NOOP] = <<>>
          /\ alive[NOOP] \in {"none", "live"}
          /\ (alive[NOOP] = "live" => is_shutdown[NOOP] /\ handles[NOOP] >= 1)
          /\ won[NOOP] = 0
          /\ \A f \in inflight : f.st # NOOP)
    /\ [][ForceFlush(NOOP) =>
            /\ last'.result = Ok
            /\ last'.calls = <<>>
            /\ is_shutdown' = is_shutdown
            /\ sdCalls' = sdCalls]_vars
    /\ [][\A timeout \in Timeouts :
            ShutdownWithTimeout(NOOP, timeout) =>
                /\ ret' = AlreadyShutdown
                /\ is_shutdown' = is_shutdown
                /\ inflight' = inflight
                /\ won' = won
                /\ NoProcessorCalled]_vars

\* The noop state exists; a force_flush that called nobody returned Ok
\* although the built provider has processors, so it was made on the noop
\* state, and a shutdown has come back AlreadyShutdown since the winning
\* shutdown of the built provider returned Ok.
C19_Witness ==
    /\ alive[NOOP] = "live"
    /\ NumProcs(1) >= 1
    /\ last.op = "force_flush"
    /\ last.calls = <<>>
    /\ last.result = Ok
    /\ returned[1] = Ok
    /\ ret = AlreadyShutdown

\* C20: shutdown() is shutdown_with_timeout(5 seconds): the sweep of a
\* winning shutdown_with_timeout(t) starts with timeout t, that of shutdown()
\* with 5, that of Drop with 5, and every processor a sweep calls receives
\* the timeout the sweep started with.
C20_TimeoutPassedThrough ==
    /\ [](/\ \A i \in 1..Len(sdCalls) :
                /\ sdCalls[i].timeout \in Timeouts
                /\ (sdCalls[i].origin = "drop" => sdCalls[i].timeout = 5)
          /\ \A f \in inflight :
                /\ (f.origin = "drop" => f.timeout = 5)
                /\ \A i \in 1..Len(sdCalls) :
                      (sdCalls[i].st = f.st /\ sdCalls[i].origin = f.origin)
                          => sdCalls[i].timeout = f.timeout)
    /\ [][\A st \in Providers :
            /\ (Shutdown(st) /\ ~is_shutdown[st]) =>
                  Frame(st, 1, 5, <<>>, "explicit", won[st] + 1) \in inflight'
            /\ \A timeout \in Timeouts :
                  (ShutdownWithTimeout(st, timeout) /\ ~is_shutdown[st]) =>
                      /\ \E f \in inflight' \ inflight : f.st = st /\ f.timeout = timeout
                      /\ (timeout = 5 => Shutdown(st))]_vars
    /\ [][\A f \in inflight :
            InnerShutdownStep(f) =>
                /\ Len(sdCalls') = Len(sdCalls) + 1
                /\ sdCalls'[Len(sdCalls')].timeout = f.timeout]_vars

\* A shutdown_with_timeout(2) swept both processors and each received the
\* timeout 2.
C20_Witness ==
    /\ HasReturned(1)
    /\ Len(SdCallsOf(1, "explicit")) >= 2
    /\ \A i \in 1..Len(sdCalls) : sdCalls[i].timeout = 2

\* C21: while a logger bound to a state is alive the state is not dropped,
\* also when every handle has been released: releasing the last handle then
\* starts no sweep and calls no processor.  The sweep of Drop starts when
\* the last logger is released with no handle left, and only if the flag is
\* still false.
C21_LoggerKeepsStateAlive ==
    /\ [](\A st \in Providers :
            LoggersOf(st) >= 1 =>
                /\ alive[st] = "live"
                /\ DropFrames(st) = {}
                /\ SdSeq(st, "drop") = <<>>)
    /\ [][\A st \in Providers :
            (DropHandle(st) /\ LoggersOf(st) >= 1) =>
                /\ inflight' = inflight
                /\ alive' = alive
                /\ NoProcessorCalled]_vars
    /\ [][\A k \in LoggerKinds :
            (DropLogger(k) /\ k.st \in Providers /\ LoggersOf(k.st) = 1 /\ handles[k.st] = 0) =>
                IF is_shutdown[k.st]
                THEN inflight' = inflight /\ alive'[k.st] = "dropped" /\ NoProcessorCalled
                ELSE /\ Frame(k.st, 1, InnerDefaultTimeout, <<>>, "drop", 0) \in inflight'
                     /\ alive'[k.st] = "dropping"]_vars

\* Every handle of the provider has been released, a logger issued before
\* any shutdown is alive and has emitted since, and no processor has
\* received a shutdown call.
C21_Witness ==
    /\ handles[1] = 0
    /\ LoggersOf(1) >= 1
    /\ alive[1] = "live"
    /\ ~is_shutdown[1]
    /\ NumProcs(1) >= 2
    /\ sdCalls = <<>>
    /\ last.op = "emit"
    /\ Len(last.calls) = NumProcs(1)

\* C22: the processor list of a built state never changes: no step of
\* clone, logger(), emit, force_flush, shutdown, a sweep or a release adds,
\* removes or reorders a processor, before or after shutdown, and the list
\* stays the one build() made of processors 1..N.
C22_ProcessorListFixed ==
    /\ [](\A st \in Providers :
            alive[st] # "none" => processors[st] = [i \in 1..NumProcs(st) |-> i])
    /\ [][\A st \in Providers : processors'[st] = processors[st]]_vars

\* The provider was shut down, flushed afterwards and released, and it still
\* lists both processors.
C22_Witness ==
    /\ alive[1] = "dropped"
    /\ HasReturned(1)
    /\ last.op = "force_flush"
    /\ last.after
    /\ processors[1] = <<1, 2>>

ProcessorKinds == {"custom", "simple", "batch"}

\* C23: each with_log_processor, with_simple_exporter or with_batch_exporter
\* call appends one processor, of its kind, at the end of the builder's list
\* and leaves the accumulated resource as it was; with_resource leaves the
\* list as it was; build() leaves it as it was, and the built state lists
\* the processors in the order of the calls that added them.
C23_ProcessorsInCallOrder ==
    /\ [](/\ \A i \in 1..Len(builder.processors) : builder.processors[i] \in ProcessorKinds
          /\ (builder.phase = "built" =>
                /\ NumProcs(1) = Len(builder.processors)
                /\ \A i \in 1..NumProcs(1) : processors[1][i] = i))
    /\ [][/\ (WithLogProcessor =>
                 builder'.processors = Append(builder.processors, "custom"))
          /\ (WithSimpleExporter =>
                 builder'.processors = Append(builder.processors, "simple"))
          /\ (WithBatchExporter =>
                 builder'.processors = Append(builder.processors, "batch"))
          /\ (builder'.processors # builder.processors =>
                 /\ builder.phase = "open"
                 /\ Len(builder'.processors) = Len(builder.processors) + 1
                 /\ \A i \in 1..Len(builder.processors) :
                       builder'.processors[i] = builder.processors[i]
                 /\ builder'.resource = builder.resource
                 /\ builder'.given = builder.given)
          /\ (builder'.resource # builder.resource =>
                 builder'.processors = builder.processors)]_vars

\* A simple exporter, a resource and a batch exporter were given, in this
\* order, and build() has returned a state of two processors.
C23_Witness ==
    /\ builder.phase = "built"
    /\ builder.processors = <<"simple", "batch">>
    /\ builder.resource.some
    /\ processors[1] = <<1, 2>>
    /\ handles[1] = 1

\* C24: the noop state is created once: the static holds one share of it,
\* and once it exists no logger() call, from either provider and however
\* the calls interleave, creates it again or changes it; every logger issued
\* once the flag of its provider was set is bound to it.
C24_NoopCreatedOnce ==
    /\ [](/\ handles[NOOP] <= 1
          /\ (alive[NOOP] = "live" <=> handles[NOOP] = 1)
          /\ \A k \in LoggerKinds :
                (loggers[k] >= 1 /\ k.when # "before") => k.st = NOOP
          /\ (LoggersOf(NOOP) >= 1 => alive[NOOP] = "live"))
    /\ [][alive[NOOP] = "live" =>
            /\ alive'[NOOP] = "live"
            /\ handles'[NOOP] = handles[NOOP]
            /\ is_shutdown'[NOOP] = is_shutdown[NOOP]
            /\ processors'[NOOP] = processors[NOOP]]_vars

\* Both providers were shut down and a logger issued by each afterwards is
\* alive; both are bound to the noop state, of which the static holds the
\* one share.
C24_Witness ==
    /\ handles[NOOP] = 1
    /\ \E k1, k2 \in LoggerKinds :
          /\ k1.from = 1 /\ k2.from = 2
          /\ k1.st = NOOP /\ k2.st = NOOP
          /\ loggers[k1] >= 1 /\ loggers[k2] >= 1
    /\ StrongCount(NOOP) = 3

\* C25: the flag of a built state is false until a shutdown call wins the
\* compare-and-set, the step that sets it is that call, and once true it
\* stays true: no force_flush, logger(), clone, emit, failing processor,
\* sweep or release resets it.
C25_FlagMonotonic ==
    /\ [](\A st \in Providers : is_shutdown[st] <=> won[st] >= 1)
    /\ [][\A st \in Providers :
            /\ (is_shutdown[st] => is_shutdown'[st])
            /\ (is_shutdown'[st] # is_shutdown[st] =>
                  /\ \E timeout \in Timeouts : ShutdownWithTimeout(st, timeout)
                  /\ won'[st] = won[st] + 1
                  /\ ExplicitFrames(st)' # {})]_vars

\* The shutdown returned InternalFailure; a force_flush and a logger() call
\* came after it and the flag is still true.
C25_Witness ==
    /\ is_shutdown[1]
    /\ returned[1].kind = "InternalFailure"
    /\ last.op = "force_flush"
    /\ last.after
    /\ LoggersOf(NOOP) >= 1

\* C26: an explicit shutdown sets the flag before it calls the first
\* processor: whenever a processor has received a shutdown call of an explicit
\* shutdown, or the winner is inside its sweep, the flag is true, each call
\* of the sweep is made with the flag already true, and a logger() call made
\* once the shutdown has begun returns a noop-bound logger although the sweep
\* is still in progress.
C26_FlagSetBeforeFirstCall ==
    /\ [](\A st \in Providers :
            /\ (SdSeq(st, "explicit") # <<>> \/ ExplicitFrames(st) # {} => is_shutdown[st])
            /\ \A k \in LoggerKinds :
                  (loggers[k] >= 1 /\ k.from = st /\ k.when = "during") => k.st = NOOP)
    /\ [][/\ \A f \in inflight :
               (f.origin = "explicit" /\ InnerShutdownStep(f)) => is_shutdown[f.st]
          /\ \A st \in Providers :
               (LoggerWithScope(st) /\ SdSeq(st, "explicit") # <<>>)
               => \E k \in LoggerKinds :
                     /\ k.st = NOOP /\ k.from = st
                     /\ loggers'[k] = loggers[k] + 1]_vars

\* The first of two processors has been called, the second has not, and a
\* logger issued in between is bound to the noop state.
C26_Witness ==
    /\ NumProcs(1) >= 2
    /\ Len(SdSeq(1, "explicit")) = 1
    /\ \E f \in ExplicitFrames(1) : f.idx = 2
    /\ \E k \in LoggerKinds :
          /\ k.from = 1 /\ k.when = "during" /\ k.st = NOOP
          /\ loggers[k] >= 1

\* C27: a losing shutdown call does not wait for the winner: while the
\* winner is inside its sweep another thread holding a handle can call
\* shutdown and gets AlreadyShutdown at once, and that call leaves the
\* winner's sweep where it was, so AlreadyShutdown is returned while some
\* processor has not been shut down yet.
C27_LoserDoesNotWait ==
    /\ [](\A st \in Providers :
            (ExplicitFrames(st) # {} /\ handles[st] >= 1 /\ ThreadFree)
            => ENABLED (Shutdown(st) /\ ret' = AlreadyShutdown /\ inflight' = inflight))
    /\ [][\A st \in Providers, timeout \in Timeouts :
            (ShutdownWithTimeout(st, timeout) /\ ExplicitFrames(st) # {})
            => /\ ret' = AlreadyShutdown
               /\ ExplicitFrames(st)' = ExplicitFrames(st)
               /\ SdSeq(st, "explicit")' = SdSeq(st, "explicit")
               /\ returned'[st] = NoResult]_vars

\* A caller has received AlreadyShutdown from provider 1 (the noop state
\* does not exist yet) while the winner has not called any of the two
\* processors.
C27_Witness ==
    /\ ret = AlreadyShutdown
    /\ alive[NOOP] = "none"
    /\ NumProcs(1) >= 2
    /\ SdSeq(1, "explicit") = <<>>
    /\ \E f \in ExplicitFrames(1) : f.idx = 1
    /\ ~HasReturned(1)

\* An operation on the provider st, or a step of a sweep of its state.
OperationOn(st) ==
    \/ \E f \in inflight :
          f.st = st /\ (InnerShutdownStep(f) \/ ShutdownReturn(f) \/ DropReturn(f))
    \/ Shutdown(st)
    \/ ForceFlush(st)
    \/ LoggerWithScope(st)
    \/ DropHandle(st)
    \/ \E k \in LoggerKinds : k.from = st /\ DropLogger(k)

\* The calls in calls reach neither the state st nor one of its processors.
NoCallReaches(calls, st) ==
    \A i \in 1..Len(calls) :
        /\ calls[i].st # st
        /\ \A j \in 1..NumProcs(st) : calls[i].p # processors[st][j]

\* The step leaves the state st as it was and calls none of its processors.
Untouched(st) ==
    /\ is_shutdown'[st] = is_shutdown[st]
    /\ processors'[st] = processors[st]
    /\ alive'[st] = alive[st]
    /\ handles'[st] = handles[st]
    /\ won'[st] = won[st]
    /\ returned'[st] = returned[st]
    /\ \A k \in KindsOf[st] : loggers'[k] = loggers[k]
    /\ \A f \in inflight' : f.st = st => f \in inflight
    /\ \A f \in inflight : f.st = st => f \in inflight'
    /\ \/ sdCalls' = sdCalls
       \/ /\ IsPrefix(sdCalls, sdCalls')
          /\ NoCallReaches(SubSeq(sdCalls', Len(sdCalls) + 1, Len(sdCalls')), st)
    /\ (last' = last \/ NoCallReaches(last'.calls, st))

\* C28: two providers built by separate build() calls are independent: the
\* two states share no processor, and a logger(), force_flush(), shutdown or
\* release on one provider, and every step of a sweep of its state, leaves
\* the other state's flag, processors, shares and shutdown result unchanged
\* and calls none of the other state's processors, also when loggers of
\* both are bound to the one noop state.
C28_ProvidersIndependent ==
    /\ [](\A i \in 1..NumProcs(1), j \in 1..NumProcs(2) :
             processors[1][i] # processors[2][j])
    /\ [][\A st \in Providers : \A o \in Providers \ {st} :
            Untouched(o) \/ ~OperationOn(st)]_vars

\* Provider 1 has been shut down and its processor swept, provider 2's
\* shutdown has not called its processor yet, and a post-shutdown logger of
\* each is bound to the same noop state.
C28_Witness ==
    /\ NumProcs(1) = 1 /\ NumProcs(2) = 1
    /\ HasReturned(1)
    /\ SdSeq(1, "explicit") = processors[1]
    /\ is_shutdown[2] /\ ~HasReturned(2)
    /\ SdSeq(2, "explicit") = <<>>
    /\ \E k1, k2 \in LoggerKinds :
          /\ k1.from = 1 /\ k1.when = "after" /\ k1.st = NOOP /\ loggers[k1] >= 1
          /\ k2.from = 2 /\ k2.when = "during" /\ k2.st = NOOP /\ loggers[k2] >= 1

====
